---- MODULE Spec2Model ----
(***************************************************************************)
(* Trackball motion core of the uConsole keyboard firmware                 *)
(* (clockworkpi/uconsole/trackball.c): four edge-interrupt handlers that   *)
(* accumulate signed pulses, and the periodic report routine that turns    *)
(* them into cursor deltas (MOUSE) or scroll ticks (WHEEL).                *)
(*                                                                         *)
(* The report routine is two steps: the critical section between           *)
(* chSysLock() and chSysUnlock(), which no interrupt handler can           *)
(* interleave, and the copy of its four local results into the report      *)
(* that is returned, which runs with interrupts enabled again.             *)
(*                                                                         *)
(* rate_meter.c and glider.c are not part of the sources at hand: the rate *)
(* estimator and the glide engine are modelled from their contracts.       *)
(***************************************************************************)
EXTENDS Integers, FiniteSets, Sequences, TLC

\* ------------------------------------------------------------ constants
AXIS_X == 0
AXIS_Y == 1
Axes == {AXIS_X, AXIS_Y}

MODE_WHEEL == 0
MODE_MOUSE == 1

TB_DECR == -1
TB_INCR == 1

WHEEL_DENOM == 2

\* ------------------------------------------------------------ bounds
\* Net pulses one axis may accumulate between two report ticks.
MaxPulses == 2
\* The same for the Y axis while the committed mode is WHEEL: enough to carry
\* an int8_t accumulator past 127.
MaxBurst == 128
\* Pulse handlers that may run between chSysUnlock() and the return.
MaxWindowPulses == 1
\* Inputs of the acceleration curve: floats up to this many units in the last
\* place above 0.05f, and rates up to this many hundredths.
MaxUlps == 64
MaxGridRate == 100

\* Values timer_read() returns (16-bit): elapsed times below and above 255,
\* and a wrap of the timer between two ticks.
TimerValues == {40, 65500}

\* Rates the estimator can report after a pulse, in hundredths of a pulse per
\* time unit: none yet, one inside the dead zone, one above it.
PulseRates == {0, 2, 200}

\* ------------------------------------------------------------ arithmetic
Abs(n) == IF n < 0 THEN -n ELSE n

\* Conversion of an int to int8_t (two's complement wrap, as the target's
\* compiler defines it).
ToInt8(n) == ((n + 128) % 256) - 128

\* C integer division, truncating toward zero (divisor > 0).
CDiv(a, b) == IF a >= 0 THEN a \div b ELSE -((-a) \div b)

\* The difference that takes the timer's largest value, not its period, when
\* the timer has wrapped.
TIMER_DIFF_16_OffByOne(a, b) == IF a >= b THEN a - b ELSE 65535 - b + a

\* The timer library's difference of two 16-bit timer values: unsigned
\* subtraction, (uint16_t)(a - b).
TIMER_DIFF_16(a, b) == (a - b + 65536) % 65536

ToUint8(n) == n % 256

RECURSIVE IsqrtIn(_, _, _)
\* The largest k in lo..hi with k * k <= n, by bisection.
IsqrtIn(n, lo, hi) ==
    IF lo >= hi THEN lo
    ELSE LET mid == (lo + hi + 1) \div 2
         IN IF mid * mid <= n THEN IsqrtIn(n, mid, hi) ELSE IsqrtIn(n, lo, mid - 1)
\* Integer part of sqrtf(n).
Isqrt(n) == IsqrtIn(n, 0, IF n < 46340 THEN n ELSE 46340)

\* ------------------------------------------------------------ acceleration curve
\* The curve with the linear term subtracted.
rateToVelocityCurveLinearSubtracted(input) ==
    LET abs_input == Abs(input) IN
    IF abs_input < 5 THEN 0
    ELSE LET x == abs_input - 5
             accel == Isqrt(x * x * x)
             linear == 20 * x
         IN 4000 - linear + accel

\* The curve without the dead zone.
rateToVelocityCurveNoDeadZone(input) ==
    LET abs_input == Abs(input)
        x == IF abs_input < 5 THEN 0 ELSE abs_input - 5
        accel == Isqrt(x * x * x)
        linear == 20 * x
    IN 4000 + linear + accel

\* Input in hundredths, result in units of 1/40000:
\* 0.1 + x/20 + x^1.5/40 with x = |input| - 0.05.
rateToVelocityCurve(input) ==
    LET abs_input == Abs(input) IN
    IF abs_input < 5 THEN 0
    ELSE LET x == abs_input - 5
             accel == Isqrt(x * x * x)
             linear == 20 * x
         IN 4000 + linear + accel

\* The same function as float arithmetic computes it next to the dead-zone
\* edge. 0.05f is 13421773 * 2^-28 and 0.1f is 13421773 * 2^-27 (the two
\* constants share their significand); 2^-28 is the distance between adjacent
\* floats in [2^-5, 2^-4), where the inputs lie, and 2^-27 in [2^-4, 2^-3),
\* where the results lie.
F32_SIGNIFICAND == 13421773

\* base + num / den rounded to an integer, ties to the even one: the rounding
\* of a float addition whose first operand is `base` units in the last place.
RoundNearestEven(base, num, den) ==
    LET lo == base + (num \div den)
        rem == num % den
    IN IF 2 * rem > den \/ (2 * rem = den /\ lo % 2 = 1) THEN lo + 1 ELSE lo

\* rateToVelocityCurve(0.05f + k * 2^-28), in units of 2^-27 (0 is 0.0f).
\* x = k * 2^-28 is exact; linear = x / 20 is k / 40 units and accel =
\* x^1.5 / 40 is k^1.5 / (40 * 2^15) units. Both are rounded to 24 significant
\* bits before the additions, which is too little to move either sum across a
\* rounding boundary for the k used here.
rateToVelocityCurveF32(k) ==
    IF k < 0 THEN 0
    ELSE LET sum == RoundNearestEven(F32_SIGNIFICAND, k, 40)
         IN RoundNearestEven(sum, Isqrt(k * k * k), 40 * 32768)

\* ------------------------------------------------------------ rate estimator
\* A rate meter is its current estimate, hundredths of a pulse per time unit;
\* 0 is the expired (idle) estimate.
RateInit == 0
rate_meter_rate(m) == m
rate_meter_expire(m) == 0
RateExpired(m) == m = 0
\* The estimates a periodic tick may leave: the estimate kept, or timed out.
rate_meter_tick(m, delta) == IF delta = 0 THEN {m} ELSE {m, 0}
\* The estimates a pulse may leave (they depend on the pulse's timing).
rate_meter_interrupt(m) == PulseRates
\* Magnitude of the latest change of the estimate.
rate_meter_delta(old, new) == Abs(new - old)

\* ------------------------------------------------------------ glide engine
\* Glide samples a velocity target lasts without a new pulse.
GlideTicks == 2
GliderInit == [direction |-> 0, speed |-> 0, momentum |-> 0]
GliderHalted(g) == g.momentum = 0
glider_stop(g) == GliderInit
glider_set_direction(g, direction) == [g EXCEPT !.direction = direction]
glider_update(g, velocity, jerk) ==
    IF velocity = 0 THEN GliderInit
    ELSE [g EXCEPT !.speed = velocity, !.momentum = GlideTicks]
glider_update_speed(g, velocity) ==
    IF g.momentum = 0 \/ velocity = 0 THEN GliderInit
    ELSE [g EXCEPT !.speed = velocity]
\* A glide that emits one more step from a halted glider.
glider_glide_creeps(g, elapsed) ==
    IF g.momentum = 0 THEN [out |-> IF elapsed > 0 THEN 1 ELSE 0, glider |-> GliderInit]
    ELSE LET steps == (g.speed * elapsed) \div 40000
             dist == IF steps > 127 THEN 127 ELSE steps
         IN [out |-> g.direction * dist,
             glider |-> IF g.momentum = 1 THEN GliderInit
                        ELSE [g EXCEPT !.momentum = g.momentum - 1]]

\* One sample: the quantized delta and the glider left behind.
glider_glide(g, elapsed) ==
    IF g.momentum = 0 THEN [out |-> 0, glider |-> GliderInit]
    ELSE LET steps == (g.speed * elapsed) \div 40000
             dist == IF steps > 127 THEN 127 ELSE steps
         IN [out |-> g.direction * dist,
             glider |-> IF g.momentum = 1 THEN GliderInit
                        ELSE [g EXCEPT !.momentum = g.momentum - 1]]

\* ------------------------------------------------------------ state
\* Init is the state the static initializers leave (lines 19-28), with the four
\* handlers registered by pointing_device_driver_init().
VARIABLES
    last_mode,              \* mode committed by the last report tick
    last_report,            \* timer value of the last report tick
    select_button_pressed,  \* flag owned by the keymap
    distances,              \* int8_t per axis
    rate_meters,
    gliders,
    wheel_buffer,           \* int8_t per axis
    pc,                     \* "idle", or "unlocked": past chSysUnlock(), before the return
    locals,                 \* x, y, h, v of the call in progress
    returned,               \* the report the step just taken returned, if any
    \* history variables
    pulses,                 \* net signed pulses per axis since the last critical section
    pulsed,                 \* a pulse handler ran since the last critical section
    windowPulses,           \* pulse handlers run since chSysUnlock() of the call in progress
    wheelDue,               \* per axis: net pulses ingested since WHEEL was entered,
                            \* minus WHEEL_DENOM times the scroll ticks computed since
    ticked,                 \* a report tick has run
    tick,                   \* what the last critical section saw and computed
    fed,                    \* the velocities the last pulse since then gave the gliders
    curve_probe             \* two inputs of the acceleration curve and its results

vars == <<last_mode, last_report, select_button_pressed, distances,
          rate_meters, gliders, wheel_buffer, pc, locals,
          returned, pulses, pulsed, windowPulses, wheelDue, ticked, tick,
          fed, curve_probe>>

Zero2 == [a \in Axes |-> 0]
NoLocals == [x |-> 0, y |-> 0, h |-> 0, v |-> 0]
NoReport == [valid |-> FALSE, x |-> 0, y |-> 0, h |-> 0, v |-> 0]
NoTick == [live |-> FALSE, mode |-> MODE_MOUSE, changed |-> FALSE, quiet |-> FALSE,
           dirty |-> FALSE, moved |-> FALSE, carry |-> FALSE, gliding |-> FALSE,
           now |-> 0, delta |-> 0, calls |-> <<>>,
           x |-> 0, y |-> 0, h |-> 0, v |-> 0]

NoFeed == [live |-> FALSE, vx |-> 0, vy |-> 0]
NoProbe == [kind |-> "none", r1 |-> 0, r2 |-> 0, v1 |-> 0, v2 |-> 0, done |-> FALSE]

ProgramInit ==
    /\ last_mode = MODE_MOUSE
    /\ last_report = 0
    /\ select_button_pressed = FALSE
    /\ distances = Zero2
    /\ rate_meters = [a \in Axes |-> RateInit]
    /\ gliders = [a \in Axes |-> GliderInit]
    /\ wheel_buffer = Zero2
    /\ pc = "idle"
    /\ locals = NoLocals
    /\ returned = NoReport
    /\ pulses = Zero2
    /\ pulsed = FALSE
    /\ windowPulses = 0
    /\ wheelDue = Zero2
    /\ ticked = FALSE
    /\ tick = NoTick
    /\ fed = NoFeed

Init == ProgramInit /\ curve_probe = NoProbe

\* ------------------------------------------------------------ pulse ingestion
PulseBudget(axis) ==
    IF last_mode = MODE_WHEEL /\ axis = AXIS_Y THEN MaxBurst ELSE MaxPulses

\* Lines 52-59: the velocities of the two axes, from the rate meters `rm`.
GlideVelocities(rm) ==
    LET rx == rate_meter_rate(rm[AXIS_X])
        ry == rate_meter_rate(rm[AXIS_Y])
        rate == Isqrt(rx * rx + ry * ry)
    IN [vx |-> IF rate > 0 THEN (rx * rateToVelocityCurve(rate)) \div rate ELSE 0,
        vy |-> IF rate > 0 THEN (ry * rateToVelocityCurve(rate)) \div rate ELSE 0]

\* What the glide engines are given by a pulse on `axis` that left the rate
\* meters `rm` (lines 49-67); `jerk` belongs to the triggering axis.
GlideInputs(gl, rm, axis, direction, jerk) ==
    LET vx == GlideVelocities(rm).vx
        vy == GlideVelocities(rm).vy
        g1 == [gl EXCEPT ![axis] = glider_set_direction(gl[axis], direction)]
    IN IF axis = AXIS_X
       THEN [g1 EXCEPT ![AXIS_X] = glider_update(g1[AXIS_X], vx, Isqrt(jerk)),
                       ![AXIS_Y] = glider_update_speed(g1[AXIS_Y], vy)]
       ELSE [g1 EXCEPT ![AXIS_X] = glider_update_speed(g1[AXIS_X], vx),
                       ![AXIS_Y] = glider_update(g1[AXIS_Y], vy, Isqrt(jerk))]

\* The guard taken from the live button flag.
PulseFeedsEnginesLiveFlag == ~select_button_pressed

\* Line 48: a pulse feeds the rate meter and the gliders unless the committed
\* mode is WHEEL.
PulseFeedsEngines == last_mode # MODE_WHEEL

\* Lines 43-69. The first three conjuncts bound the exploration: the net pulses
\* of one interval, the pulses not yet turned into scroll ticks, and the
\* handlers that run before a call in progress returns.
trackball_move(axis, direction) ==
    /\ Abs(pulses[axis] + direction) <= PulseBudget(axis)
    /\ Abs(wheelDue[axis] + direction) <= PulseBudget(axis) + WHEEL_DENOM
    /\ pc = "unlocked" => windowPulses < MaxWindowPulses
    /\ distances' = [distances EXCEPT ![axis] = ToInt8(distances[axis] + direction)]
    /\ IF PulseFeedsEngines
       THEN \E r \in rate_meter_interrupt(rate_meters[axis]) :
               LET rm == [rate_meters EXCEPT ![axis] = r]
                   jerk == rate_meter_delta(rate_meters[axis], r)
               IN /\ rate_meters' = rm
                  /\ gliders' = GlideInputs(gliders, rm, axis, direction, jerk)
                  /\ fed' = [live |-> TRUE, vx |-> GlideVelocities(rm).vx,
                                            vy |-> GlideVelocities(rm).vy]
       ELSE UNCHANGED <<rate_meters, gliders, fed>>
    /\ UNCHANGED <<last_mode, last_report, select_button_pressed, wheel_buffer,
                   pc, locals, ticked, curve_probe>>
    \* history
    /\ pulses' = [pulses EXCEPT ![axis] = pulses[axis] + direction]
    /\ pulsed' = TRUE
    /\ windowPulses' = IF pc = "unlocked" THEN windowPulses + 1 ELSE windowPulses
    /\ wheelDue' = IF last_mode = MODE_WHEEL
                   THEN [wheelDue EXCEPT ![axis] = wheelDue[axis] + direction]
                   ELSE wheelDue
    /\ returned' = NoReport
    /\ tick' = IF pc = "unlocked" THEN tick ELSE NoTick

trackball_left == trackball_move(AXIS_X, TB_DECR)
trackball_right == trackball_move(AXIS_X, TB_INCR)
trackball_up == trackball_move(AXIS_Y, TB_DECR)
trackball_down == trackball_move(AXIS_Y, TB_INCR)

\* The keymap toggles the flag, from the main loop that also requests the
\* reports: never inside a call of the report routine.
select_button_toggle ==
    /\ pc = "idle"
    /\ select_button_pressed' = ~select_button_pressed
    /\ returned' = NoReport
    /\ tick' = NoTick
    /\ UNCHANGED <<last_mode, last_report, distances, rate_meters, gliders,
                   wheel_buffer, pc, locals, pulses, pulsed, windowPulses,
                   wheelDue, ticked, fed, curve_probe>>

\* ------------------------------------------------------------ report tick
\* The mode taken from the flag the wrong way round.
ModeOfInverted(flag) == IF flag THEN MODE_MOUSE ELSE MODE_WHEEL

\* Line 102.
ModeOf(flag) == IF flag THEN MODE_WHEEL ELSE MODE_MOUSE

\* The collaborator calls of the reset, in program order (lines 104-107).
ResetCalls ==
    <<<<"expire", AXIS_X>>, <<"expire", AXIS_Y>>, <<"stop", AXIS_X>>, <<"stop", AXIS_Y>>>>

\* The reset with lines 110-111 left out.
ModeChangeResetKeepsDistances(s) ==
    [rate_meters |-> [a \in Axes |-> rate_meter_expire(s.rate_meters[a])],
     gliders |-> [a \in Axes |-> glider_stop(s.gliders[a])],
     calls |-> s.calls \o ResetCalls,
     wheel_buffer |-> Zero2,
     distances |-> s.distances]

\* The reset with lines 108-109 left out.
ModeChangeResetKeepsBuffer(s) ==
    [rate_meters |-> [a \in Axes |-> rate_meter_expire(s.rate_meters[a])],
     gliders |-> [a \in Axes |-> glider_stop(s.gliders[a])],
     calls |-> s.calls \o ResetCalls,
     wheel_buffer |-> s.wheel_buffer,
     distances |-> Zero2]

\* The reset with lines 106-107 left out.
ModeChangeResetKeepsGliders(s) ==
    [rate_meters |-> [a \in Axes |-> rate_meter_expire(s.rate_meters[a])],
     gliders |-> s.gliders,
     calls |-> s.calls \o <<<<"expire", AXIS_X>>, <<"expire", AXIS_Y>>>>,
     wheel_buffer |-> Zero2,
     distances |-> Zero2]

\* Lines 104-111: the reset a mode change performs.
ModeChangeReset(s) ==
    [rate_meters |-> [a \in Axes |-> rate_meter_expire(s.rate_meters[a])],
     gliders |-> [a \in Axes |-> glider_stop(s.gliders[a])],
     calls |-> s.calls \o ResetCalls,
     wheel_buffer |-> Zero2,
     distances |-> Zero2]

\* The quantization with the remainder taken as buffer - tick.
WheelQuantizeUnscaled(buffer, distance) ==
    LET sum == ToInt8(buffer + distance)
        t == ToInt8(CDiv(sum, WHEEL_DENOM))
    IN [tick |-> t, rest |-> ToInt8(sum - t)]

\* The quantization rounding to the nearest tick instead of truncating.
WheelQuantizeRounds(buffer, distance) ==
    LET sum == ToInt8(buffer + distance)
        t == ToInt8(CDiv(sum + (IF sum >= 0 THEN 1 ELSE -1), WHEEL_DENOM))
    IN [tick |-> t, rest |-> ToInt8(sum - t * WHEEL_DENOM)]

\* Lines 127-140 for one axis: the scroll tick and the remainder kept.
WheelQuantize(buffer, distance) ==
    LET sum == ToInt8(buffer + distance)
        t == ToInt8(CDiv(sum, WHEEL_DENOM))
    IN [tick |-> t, rest |-> ToInt8(sum - t * WHEEL_DENOM)]

\* Lines 125-141.
WheelBranch(s) ==
    LET qx == WheelQuantize(s.wheel_buffer[AXIS_X], s.distances[AXIS_X])
        qy == WheelQuantize(s.wheel_buffer[AXIS_Y], s.distances[AXIS_Y])
    IN [x |-> 0, y |-> 0, h |-> qx.tick, v |-> qy.tick,
        rate_meters |-> s.rate_meters,
        gliders |-> s.gliders,
        calls |-> s.calls,
        wheel_buffer |-> [a \in Axes |-> IF a = AXIS_X THEN qx.rest ELSE qy.rest],
        distances |-> Zero2]

\* The MOUSE branch with lines 122-123 left out.
MouseBranchKeepsDistances(s, delta) ==
    LET gx == glider_glide(s.gliders[AXIS_X], ToUint8(delta))
        gy == glider_glide(s.gliders[AXIS_Y], ToUint8(delta))
    IN [x |-> ToInt8(gx.out), y |-> ToInt8(gy.out), h |-> 0, v |-> 0,
        rate_meters |-> s.rate_meters,
        gliders |-> [a \in Axes |-> IF a = AXIS_X THEN gx.glider ELSE gy.glider],
        calls |-> s.calls \o <<<<"glide", AXIS_X, ToUint8(delta)>>,
                               <<"glide", AXIS_Y, ToUint8(delta)>>>>,
        wheel_buffer |-> s.wheel_buffer,
        distances |-> s.distances]

\* The MOUSE branch reporting the raw pulses as scroll as well.
MouseBranchScrolls(s, delta) ==
    LET gx == glider_glide(s.gliders[AXIS_X], ToUint8(delta))
        gy == glider_glide(s.gliders[AXIS_Y], ToUint8(delta))
    IN [x |-> ToInt8(gx.out), y |-> ToInt8(gy.out),
        h |-> s.distances[AXIS_X], v |-> s.distances[AXIS_Y],
        rate_meters |-> s.rate_meters,
        gliders |-> [a \in Axes |-> IF a = AXIS_X THEN gx.glider ELSE gy.glider],
        calls |-> s.calls \o <<<<"glide", AXIS_X, ToUint8(delta)>>,
                               <<"glide", AXIS_Y, ToUint8(delta)>>>>,
        wheel_buffer |-> s.wheel_buffer,
        distances |-> Zero2]

\* Lines 119-124.
MouseBranch(s, delta) ==
    LET gx == glider_glide(s.gliders[AXIS_X], ToUint8(delta))
        gy == glider_glide(s.gliders[AXIS_Y], ToUint8(delta))
    IN [x |-> ToInt8(gx.out), y |-> ToInt8(gy.out), h |-> 0, v |-> 0,
        rate_meters |-> s.rate_meters,
        gliders |-> [a \in Axes |-> IF a = AXIS_X THEN gx.glider ELSE gy.glider],
        calls |-> s.calls \o <<<<"glide", AXIS_X, ToUint8(delta)>>,
                               <<"glide", AXIS_Y, ToUint8(delta)>>>>,
        wheel_buffer |-> s.wheel_buffer,
        distances |-> Zero2]

\* The report with the vertical scroll not inverted.
ReportAssembleNotInverted(loc) ==
    [valid |-> TRUE, x |-> loc.x, y |-> loc.y, h |-> loc.h, v |-> loc.v]

\* The report with the scroll fields taken from the shared accumulators after
\* chSysUnlock() instead of from the locals.
ReportAssembleUnlocked(loc) ==
    [valid |-> TRUE, x |-> loc.x, y |-> loc.y,
     h |-> ToInt8(loc.h + distances[AXIS_X]),
     v |-> ToInt8(-(loc.v + distances[AXIS_Y]))]

\* Lines 145-149: the report built from the locals.
ReportAssemble(loc) ==
    [valid |-> TRUE, x |-> loc.x, y |-> loc.y, h |-> loc.h, v |-> ToInt8(-loc.v)]

\* Some accumulator, rate estimate or glide state differs from its reset value.
Dirty ==
    \E a \in Axes : \/ distances[a] # 0
                     \/ wheel_buffer[a] # 0
                     \/ ~RateExpired(rate_meters[a])
                     \/ ~GliderHalted(gliders[a])

\* The critical section with the periodic rate tick taken out of the else
\* branch: it runs on every tick, and the reset follows it on a mode change.
TickComputeTicksAlways(s0, changed, mode, delta, rt) ==
    LET st == [s0 EXCEPT !.rate_meters = rt,
                         !.calls = @ \o <<<<"tick", AXIS_X, delta>>,
                                          <<"tick", AXIS_Y, delta>>>>]
        s1 == IF changed THEN ModeChangeReset(st) ELSE st
    IN IF mode = MODE_MOUSE THEN MouseBranch(s1, delta) ELSE WheelBranch(s1)

\* Lines 103-142: what the critical section computes from the shared state
\* `s0`, the sampled mode, the elapsed time and the rate estimates `rt` a
\* periodic tick leaves. `calls` lists the calls made to the rate meters and
\* the gliders, in program order.
TickCompute(s0, changed, mode, delta, rt) ==
    LET s1 == IF changed THEN ModeChangeReset(s0)
              ELSE [s0 EXCEPT !.rate_meters = rt,
                              !.calls = @ \o <<<<"tick", AXIS_X, delta>>,
                                               <<"tick", AXIS_Y, delta>>>>]
    IN IF mode = MODE_MOUSE THEN MouseBranch(s1, delta) ELSE WheelBranch(s1)

\* Lines 96-143: the critical section.
get_report_locked ==
    /\ pc = "idle"
    /\ \E now \in TimerValues :
         LET delta == TIMER_DIFF_16(now, last_report)
             mode == ModeOf(select_button_pressed)
             changed == last_mode # mode
             s0 == [rate_meters |-> rate_meters, gliders |-> gliders,
                    wheel_buffer |-> wheel_buffer, distances |-> distances,
                    calls |-> <<>>]
         IN \E rx \in rate_meter_tick(rate_meters[AXIS_X], delta),
               ry \in rate_meter_tick(rate_meters[AXIS_Y], delta) :
            \E s2 \in {TickCompute(s0, changed, mode, delta,
                                   [a \in Axes |-> IF a = AXIS_X THEN rx ELSE ry])} :
                 /\ last_report' = now
                 /\ last_mode' = mode
                 /\ rate_meters' = s2.rate_meters
                 /\ gliders' = s2.gliders
                 /\ wheel_buffer' = s2.wheel_buffer
                 /\ distances' = s2.distances
                 /\ locals' = [x |-> s2.x, y |-> s2.y, h |-> s2.h, v |-> s2.v]
                 /\ pc' = "unlocked"
                 /\ UNCHANGED <<select_button_pressed, curve_probe>>
                 \* history
                 /\ tick' = [live |-> TRUE, mode |-> mode, changed |-> changed,
                             quiet |-> ticked /\ ~pulsed, dirty |-> Dirty,
                             moved |-> distances # Zero2,
                             carry |-> wheel_buffer # Zero2,
                             gliding |-> \E a \in Axes : ~GliderHalted(gliders[a]),
                             now |-> now, delta |-> delta, calls |-> s2.calls,
                             x |-> s2.x, y |-> s2.y, h |-> s2.h, v |-> s2.v]
                 /\ wheelDue' = IF mode = MODE_WHEEL /\ ~changed
                                THEN [a \in Axes |-> wheelDue[a] - WHEEL_DENOM *
                                        (IF a = AXIS_X THEN s2.h ELSE s2.v)]
                                ELSE Zero2
                 /\ pulses' = Zero2
                 /\ pulsed' = FALSE
                 /\ windowPulses' = 0
                 /\ ticked' = TRUE
                 /\ returned' = NoReport
                 /\ fed' = NoFeed

\* Lines 145-149: the report is filled in and returned.
get_report_return ==
    /\ pc = "unlocked"
    /\ returned' = ReportAssemble(locals)
    /\ pc' = "idle"
    /\ locals' = NoLocals
    /\ windowPulses' = 0
    /\ UNCHANGED <<last_mode, last_report, select_button_pressed, distances,
                   rate_meters, gliders, wheel_buffer, pulses, pulsed,
                   wheelDue, ticked, tick, fed, curve_probe>>

Next ==
    \/ trackball_left
    \/ trackball_right
    \/ trackball_up
    \/ trackball_down
    \/ select_button_toggle
    \/ get_report_locked
    \/ get_report_return

Spec == Init /\ [][Next]_vars

\* ------------------------------------------------------------ the curve alone
\* The acceleration curve applied to two inputs r1 < r2 at or above the dead
\* zone: either floats, counted in units in the last place from 0.05f, or
\* rates in hundredths.
CurveProbes ==
    {[kind |-> "f32", r1 |-> a, r2 |-> b, v1 |-> 0, v2 |-> 0, done |-> FALSE] :
        a \in 0 .. MaxUlps, b \in 0 .. MaxUlps}
    \cup
    {[kind |-> "grid", r1 |-> a, r2 |-> b, v1 |-> 0, v2 |-> 0, done |-> FALSE] :
        a \in 5 .. MaxGridRate, b \in 5 .. MaxGridRate}

InitCurve ==
    /\ ProgramInit
    /\ curve_probe \in {c \in CurveProbes : c.r1 < c.r2}

ProgramVars == <<last_mode, last_report, select_button_pressed, distances,
                 rate_meters, gliders, wheel_buffer, pc, locals,
                 returned, pulses, pulsed, windowPulses, wheelDue, ticked, tick,
                 fed>>

curve_f32 ==
    /\ curve_probe.kind = "f32" /\ ~curve_probe.done
    /\ curve_probe' = [curve_probe EXCEPT !.v1 = rateToVelocityCurveF32(curve_probe.r1),
                                          !.v2 = rateToVelocityCurveF32(curve_probe.r2),
                                          !.done = TRUE]
    /\ UNCHANGED ProgramVars

curve_grid ==
    /\ curve_probe.kind = "grid" /\ ~curve_probe.done
    /\ curve_probe' = [curve_probe EXCEPT !.v1 = rateToVelocityCurve(curve_probe.r1),
                                          !.v2 = rateToVelocityCurve(curve_probe.r2),
                                          !.done = TRUE]
    /\ UNCHANGED ProgramVars

NextCurve ==
    \/ curve_f32
    \/ curve_grid

SpecCurve == InitCurve /\ [][NextCurve]_vars

\* ------------------------------------------------------------ types
Int8 == -128 .. 127

TypeOK ==
    /\ last_mode \in {MODE_WHEEL, MODE_MOUSE}
    /\ last_report \in TimerValues \cup {0}
    /\ select_button_pressed \in BOOLEAN
    /\ distances \in [Axes -> Int8]
    /\ wheel_buffer \in [Axes -> Int8]
    /\ pc \in {"idle", "unlocked"}
    /\ locals.h \in Int8 /\ locals.v \in Int8 /\ locals.x \in Int8 /\ locals.y \in Int8

\* ------------------------------------------------------------ properties
\* The state the critical section of a report tick has just left: no handler
\* has run since chSysUnlock().
JustTicked == tick.live /\ pc = "unlocked" /\ windowPulses = 0
\* The state in which the report of that tick has just been returned.
JustReturned == tick.live /\ returned.valid

\* C1: a report tick whose sampled mode differs from the committed mode
\* returns a report with x, y, h and v all 0, and leaves RawDistance and
\* WheelBuffer 0 on both axes, both rate estimates expired and both glide
\* states halted, whatever they held before.
C1_ModeSwitchReset ==
    (tick.live /\ tick.changed) =>
       /\ wheel_buffer = Zero2
       /\ JustTicked =>
            /\ distances = Zero2
            /\ \A a \in Axes : RateExpired(rate_meters[a]) /\ GliderHalted(gliders[a])
       /\ returned.valid =>
            returned.x = 0 /\ returned.y = 0 /\ returned.h = 0 /\ returned.v = 0

\* A mode-change tick that found some accumulator, rate or glide state set
\* has returned its report.
C1_Witness == JustReturned /\ tick.changed /\ tick.dirty /\ tick.moved

\* C2: after every report tick, |WheelBuffer[axis]| < WHEEL_DENOM on both
\* axes, for any number of pulses between ticks.
C2_WheelRemainderBound ==
    ticked => \A a \in Axes : Abs(wheel_buffer[a]) < WHEEL_DENOM

\* A WHEEL tick has turned a burst of pulses into many scroll ticks and kept
\* a remainder.
C2_Witness ==
    JustTicked /\ tick.mode = MODE_WHEEL /\ Abs(tick.v) > 50 /\ wheel_buffer[AXIS_Y] # 0

\* C3: on a WHEEL tick without mode change, with B the WheelBuffer before and
\* D the net pulses ingested since the previous tick, the scroll value is
\* (B + D) / WHEEL_DENOM truncated toward zero and WheelBuffer becomes
\* (B + D) minus that value times WHEEL_DENOM, for every D.
C3_WheelQuantization ==
    [][(pc = "idle" /\ pc' = "unlocked" /\ tick'.mode = MODE_WHEEL /\ ~tick'.changed) =>
         \A a \in Axes :
            LET t == CDiv(wheel_buffer[a] + pulses[a], WHEEL_DENOM)
            IN /\ (IF a = AXIS_X THEN locals'.h ELSE locals'.v) = t
               /\ wheel_buffer'[a] = wheel_buffer[a] + pulses[a] - t * WHEEL_DENOM]_vars

\* C4: while the mode stays WHEEL, after each report tick WHEEL_DENOM times
\* the scroll ticks computed since WHEEL was entered plus WheelBuffer equals
\* the net pulses ingested since WHEEL was entered, on each axis.
C4_NoPulseLost ==
    (JustTicked /\ tick.mode = MODE_WHEEL) =>
        \A a \in Axes : wheelDue[a] = wheel_buffer[a]

\* C5 as stated: no pulse handler runs between the start of a report tick and
\* the point where the four fields of its report are assembled.
C5_NoPulseBeforeAssembly == pc = "unlocked" => windowPulses = 0

\* C5 as amended: the critical section covers the computation of x, y, h, v
\* and every access to the shared state; a pulse handler that runs after
\* chSysUnlock() and before the report is filled in changes none of the
\* values the report gets.
C5_ReportFromCriticalSection ==
    /\ pc = "unlocked" =>
         /\ tick.live
         /\ locals = [x |-> tick.x, y |-> tick.y, h |-> tick.h, v |-> tick.v]
    /\ returned.valid =>
         /\ tick.live
         /\ returned.x = tick.x /\ returned.y = tick.y
         /\ returned.h = tick.h /\ returned.v = ToInt8(-tick.v)

\* A report has been returned by a call in which a pulse handler ran between
\* chSysUnlock() and the return, in WHEEL mode.
C5_Witness ==
    JustReturned /\ pulsed /\ distances # Zero2 /\ tick.mode = MODE_WHEEL /\ tick.v # 0

\* C6: at the end of every report tick (MOUSE, WHEEL or mode change),
\* RawDistance is 0 on both axes.
C6_RawDistanceCleared == JustTicked => distances = Zero2

\* A MOUSE tick without mode change that found pulses accumulated has ended.
C6_Witness ==
    JustTicked /\ tick.mode = MODE_MOUSE /\ ~tick.changed /\ tick.moved

\* C7: whenever the committed mode is MOUSE, WheelBuffer is 0 on both axes.
C7_NoWheelRemainderInMouse == last_mode = MODE_MOUSE => wheel_buffer = Zero2

\* A tick has switched from WHEEL to MOUSE with a remainder in WheelBuffer.
C7_Witness ==
    tick.live /\ tick.changed /\ tick.mode = MODE_MOUSE /\ tick.carry

\* C8: a WHEEL tick without mode change and without any pulse since the
\* previous tick reports h = v = 0 and leaves WheelBuffer as it was.
C8_QuietWheelTick ==
    /\ []((JustReturned /\ tick.quiet /\ ~tick.changed /\ tick.mode = MODE_WHEEL) =>
            returned.h = 0 /\ returned.v = 0)
    /\ [][(pc = "idle" /\ pc' = "unlocked" /\ tick'.quiet /\ ~tick'.changed
           /\ tick'.mode = MODE_WHEEL) =>
            locals'.h = 0 /\ locals'.v = 0 /\ wheel_buffer' = wheel_buffer]_vars

\* A quiet WHEEL tick that found a remainder in WheelBuffer has returned.
C8_Witness ==
    JustReturned /\ tick.quiet /\ ~tick.changed /\ tick.mode = MODE_WHEEL /\ tick.carry

\* C9 as stated: a MOUSE tick without mode change and without any pulse since
\* the previous tick reports x = y = 0.
C9_QuietMouseTick ==
    (tick.live /\ tick.quiet /\ ~tick.changed /\ tick.mode = MODE_MOUSE) =>
        tick.x = 0 /\ tick.y = 0

\* C9 as amended: the same, provided both glide states are halted when the
\* second tick starts.
C9_QuietMouseTickHalted ==
    (tick.live /\ tick.quiet /\ ~tick.changed /\ tick.mode = MODE_MOUSE
       /\ ~tick.gliding) =>
        /\ tick.x = 0 /\ tick.y = 0
        /\ returned.valid => returned.x = 0 /\ returned.y = 0

\* A quiet MOUSE tick over halted gliders, after an elapsed time that is not
\* 0, has returned.
C9_Witness ==
    JustReturned /\ tick.quiet /\ ~tick.changed /\ tick.mode = MODE_MOUSE
      /\ ~tick.gliding /\ ToUint8(tick.delta) # 0

\* C10: the report's vertical scroll is the negation of the vertical tick
\* computed in the critical section, the horizontal scroll is the horizontal
\* tick unchanged, and both fit a signed 8-bit field.
C10_ScrollInversion ==
    JustReturned =>
        /\ returned.v = -tick.v
        /\ returned.h = tick.h
        /\ returned.v \in -128 .. 127 /\ returned.h \in -128 .. 127

\* An internal vertical tick of +1 has been reported as -1.
C10_Witness == JustReturned /\ tick.v = 1 /\ returned.v = -1

\* A step of one of the four pulse handlers.
PulseStep == pc' = pc /\ pulses' # pulses

\* C11: a pulse trigger invoked while the committed mode is WHEEL changes only
\* RawDistance of its own axis, by its signed unit: both rate estimates, both
\* glide states, WheelBuffer, the committed mode, LastReportTimestamp and the
\* other axis's RawDistance are left unchanged.
C11_WheelPulseFrame ==
    [][(PulseStep /\ last_mode = MODE_WHEEL) =>
         /\ \E a \in Axes, d \in {TB_DECR, TB_INCR} :
               /\ pulses' = [pulses EXCEPT ![a] = pulses[a] + d]
               /\ distances' = [distances EXCEPT ![a] = distances[a] + d]
         /\ UNCHANGED <<rate_meters, gliders, wheel_buffer, last_mode, last_report>>]_vars

\* The step that runs the critical section of a report tick.
TickStep == pc = "idle" /\ pc' = "unlocked"

\* The last critical section took the mode-change branch (lines 104-111).
ResetPerformed ==
    \E i \in DOMAIN tick.calls : tick.calls[i][1] \in {"expire", "stop"}

\* C12: the mode is decided once per report tick from the button flag: after
\* every tick the committed mode is WHEEL exactly when the flag was asserted
\* at that tick's sample and MOUSE otherwise, and the tick performs the
\* transition reset if and only if the sampled mode differs from the mode the
\* previous tick left (MOUSE before the first tick).
C12_ModeDecidedPerTick ==
    /\ [](~ticked => last_mode = MODE_MOUSE)
    /\ [][TickStep =>
            /\ last_mode' = (IF select_button_pressed THEN MODE_WHEEL ELSE MODE_MOUSE)
            /\ ResetPerformed' <=> (last_mode' # last_mode)]_vars
    /\ [][~TickStep => last_mode' = last_mode]_vars

\* A tick has sampled the flag asserted while the committed mode was MOUSE,
\* and has committed WHEEL with the reset.
C12_Witness ==
    JustTicked /\ select_button_pressed /\ last_mode = MODE_WHEEL /\ tick.changed
      /\ ResetPerformed

\* The elapsed time the last critical section passed to glider_glide for `a`.
GlideElapsed(a) ==
    {tick.calls[i][3] : i \in {j \in DOMAIN tick.calls :
                                 tick.calls[j][1] = "glide" /\ tick.calls[j][2] = a}}

\* C13: on every MOUSE-mode report tick each axis's glide engine is advanced
\* by the elapsed time the tick computed from the timer and
\* LastReportTimestamp, for every value the 16-bit timer difference can take,
\* and the two deltas the engine returns become the report's x and y.
C13_GlideByElapsed ==
    /\ []((tick.live /\ tick.mode = MODE_MOUSE) =>
            \A a \in Axes : GlideElapsed(a) = {tick.delta})
    /\ [][(TickStep /\ tick'.mode = MODE_MOUSE) =>
            LET before == [a \in Axes |-> IF tick'.changed THEN glider_stop(gliders[a])
                                          ELSE gliders[a]]
            IN /\ locals'.x = glider_glide(before[AXIS_X], tick'.delta).out
               /\ locals'.y = glider_glide(before[AXIS_Y], tick'.delta).out]_vars

\* C14 as stated: the acceleration curve is strictly increasing above the dead
\* zone: for all inputs r1 < r2, both at least 0.05, curve(r1) < curve(r2).
C14_CurveStrictlyIncreasing ==
    (curve_probe.done /\ curve_probe.r1 < curve_probe.r2) =>
        curve_probe.v1 < curve_probe.v2

\* C14 as amended: above the dead zone the curve never decreases, and it
\* increases strictly between inputs at least 0.01 apart; floats closer than
\* the result's resolution (within 40 units in the last place of each other
\* next to the dead zone) can give the same value.
C14_CurveNonDecreasing ==
    (curve_probe.done /\ curve_probe.r1 < curve_probe.r2) =>
        /\ curve_probe.v1 <= curve_probe.v2
        /\ curve_probe.kind = "grid" => curve_probe.v1 < curve_probe.v2
        /\ (curve_probe.kind = "f32" /\ curve_probe.r2 - curve_probe.r1 > 40) =>
              curve_probe.v1 < curve_probe.v2

\* The curve has been applied to 0.05f and to the next float above it and has
\* returned 0.1f for both.
C14_Witness ==
    /\ curve_probe.done /\ curve_probe.kind = "f32"
    /\ curve_probe.r1 = 0 /\ curve_probe.r2 = 1
    /\ curve_probe.v1 = F32_SIGNIFICAND /\ curve_probe.v2 = F32_SIGNIFICAND

\* C15: for every input r with |r| < 0.05 the acceleration curve returns 0, so
\* a MOUSE-mode pulse whose combined two-axis rate is below 0.05 (exactly 0
\* included, where the ratio is 0 without a division) passes velocity 0 to
\* both axes' glide engines.
C15_DeadZone ==
    /\ \A r \in -4 .. 4 : rateToVelocityCurve(r) = 0
    /\ \A k \in 1 .. MaxUlps : rateToVelocityCurveF32(-k) = 0
    /\ fed.live =>
         LET rx == rate_meter_rate(rate_meters[AXIS_X])
             ry == rate_meter_rate(rate_meters[AXIS_Y])
         IN rx * rx + ry * ry < 5 * 5 => fed.vx = 0 /\ fed.vy = 0

\* A MOUSE-mode pulse has found both rates inside the dead zone, neither 0,
\* and has given velocity 0 to both gliders.
C15_Witness ==
    /\ fed.live /\ last_mode = MODE_MOUSE
    /\ \A a \in Axes : rate_meter_rate(rate_meters[a]) \in 1 .. 4
    /\ fed.vx = 0 /\ fed.vy = 0

\* The places in the call list of the last critical section of the calls of
\* one of `ops` on axis `a`.
CallsOf(ops, a) ==
    {i \in DOMAIN tick.calls : tick.calls[i][1] \in ops /\ tick.calls[i][2] = a}

\* C16: on each report tick every axis's rate estimator receives exactly one
\* operation, before any output is computed: expire if the mode changed on
\* this tick, tick(elapsed) if it did not, never both and never neither; on a
\* mode-change tick both glide engines are stopped before any glide sample is
\* taken.
C16_OneRateOperationPerTick ==
    tick.live =>
      \A a \in Axes :
        /\ Cardinality(CallsOf({"expire", "tick"}, a)) = 1
        /\ \A i \in CallsOf({"expire", "tick"}, a) :
              /\ tick.calls[i] = IF tick.changed THEN <<"expire", a>>
                                 ELSE <<"tick", a, tick.delta>>
              /\ \A b \in Axes : \A j \in CallsOf({"glide"}, b) : i < j
        /\ tick.changed =>
              /\ Cardinality(CallsOf({"stop"}, a)) = 1
              /\ \A i \in CallsOf({"stop"}, a) :
                    \A b \in Axes : \A j \in CallsOf({"glide"}, b) : i < j
        /\ ~tick.changed => CallsOf({"stop"}, a) = {}

\* A tick has switched from WHEEL to MOUSE: two expires, two stops, then the
\* two glide samples.
C16_Witness ==
    /\ tick.live /\ tick.changed /\ tick.mode = MODE_MOUSE
    /\ Len(tick.calls) = 6
    /\ tick.calls[4] = <<"stop", AXIS_Y>> /\ tick.calls[5][1] = "glide"

\* C17: on every report tick, ticks that perform a mode reset included,
\* LastReportTimestamp is set to the current timer value and the elapsed time
\* is (now - previous LastReportTimestamp) modulo 2^16, so it is the true
\* elapsed time whenever that is below 2^16 timer units, also when the 16-bit
\* timer has wrapped between the two ticks.
C17_ElapsedModuloTimer ==
    [][TickStep =>
         LET now == tick'.now
             elapsed == IF now >= last_report THEN now - last_report
                        ELSE now + 65536 - last_report
         IN /\ last_report' = now
            /\ tick'.delta = (now - last_report) % 65536
            /\ tick'.delta = elapsed
            /\ \A a \in Axes : ~tick'.changed =>
                  \E i \in DOMAIN tick'.calls : tick'.calls[i] = <<"tick", a, elapsed>>]_vars

\* A tick that resets the mode has run after the timer wrapped: 76 units after
\* the previous tick, which ran at 65500.
C17_Witness ==
    JustTicked /\ tick.changed /\ last_report = 40 /\ tick.now = 40 /\ tick.delta = 76

\* C18: no MOUSE momentum survives into or through WHEEL mode: in every
\* reachable state where the committed mode is WHEEL both glide states are
\* halted, because between the tick that enters WHEEL and the tick that leaves
\* it no glide operation (set_direction, update, update_speed, glide) is
\* invoked on either axis.
C18_NoMomentumInWheel ==
    /\ [](last_mode = MODE_WHEEL => \A a \in Axes : GliderHalted(gliders[a]))
    /\ []((tick.live /\ tick.mode = MODE_WHEEL) =>
            \A a \in Axes : CallsOf({"glide"}, a) = {})
    /\ [][(PulseStep /\ last_mode = MODE_WHEEL) => UNCHANGED <<gliders, fed>>]_vars
    /\ [][(TickStep /\ last_mode = MODE_WHEEL /\ last_mode' = MODE_WHEEL) =>
            UNCHANGED gliders]_vars

\* A tick has entered WHEEL while a glide was in motion, and a pulse has
\* arrived since.
C18_Witness ==
    /\ tick.live /\ tick.changed /\ tick.mode = MODE_WHEEL /\ tick.gliding
    /\ last_mode = MODE_WHEEL /\ pulsed /\ distances # Zero2

\* C19: pulse triggers act on the mode committed by the last report tick, not
\* on the live button flag: they feed the rate meters and the gliders only if
\* the committed mode is MOUSE. Pulses that arrive between a change of the
\* flag and the mode-change tick that follows are discarded: that tick zeroes
\* RawDistance, expires the rates and stops the glides, so they contribute to
\* no field of its report nor of any later one.
C19_PulsesUseCommittedMode ==
    /\ [][PulseStep =>
            IF last_mode = MODE_MOUSE
            THEN /\ fed'.live
                 /\ fed'.vx = GlideVelocities(rate_meters').vx
                 /\ fed'.vy = GlideVelocities(rate_meters').vy
                 /\ \E a \in Axes : /\ pulses'[a] # pulses[a]
                                    /\ rate_meters'[a] \in rate_meter_interrupt(rate_meters[a])
            ELSE UNCHANGED <<rate_meters, gliders, fed>>]_vars
    /\ []((JustTicked /\ tick.changed) =>
            /\ tick.x = 0 /\ tick.y = 0 /\ tick.h = 0 /\ tick.v = 0
            /\ distances = Zero2 /\ wheel_buffer = Zero2
            /\ rate_meters = [a \in Axes |-> RateInit]
            /\ gliders = [a \in Axes |-> GliderInit])
    /\ []((JustReturned /\ tick.changed) =>
            returned = [valid |-> TRUE, x |-> 0, y |-> 0, h |-> 0, v |-> 0])

\* The flag was asserted while the committed mode was MOUSE, pulses fed the
\* gliders and RawDistance before the next tick, and that tick has switched
\* to WHEEL and returned its report.
C19_Witness ==
    /\ JustReturned /\ tick.changed /\ tick.mode = MODE_WHEEL
    /\ tick.moved /\ tick.gliding /\ select_button_pressed

\* C20: the two output streams are mutually exclusive in every report: a
\* report produced by a tick whose mode is WHEEL has x = y = 0 and a report
\* produced by a tick whose mode is MOUSE has h = v = 0, whatever RawDistance,
\* WheelBuffer and the glide states held before the tick.
C20_StreamsExclusive ==
    /\ (tick.live /\ pc = "unlocked") =>
          IF tick.mode = MODE_WHEEL THEN locals.x = 0 /\ locals.y = 0
          ELSE locals.h = 0 /\ locals.v = 0
    /\ JustReturned =>
          IF tick.mode = MODE_WHEEL THEN returned.x = 0 /\ returned.y = 0
          ELSE returned.h = 0 /\ returned.v = 0

\* A MOUSE tick that found pulses in RawDistance and a glide in motion has
\* returned a cursor delta.
C20_Witness ==
    /\ JustReturned /\ tick.mode = MODE_MOUSE /\ ~tick.changed
    /\ tick.moved /\ tick.gliding /\ returned.x # 0

====
